---- MODULE Spec2Model ----
(***************************************************************************)
(* A model of sort/fs_sort.go: FileSystemSort's control loop, the scanner  *)
(* (scan/add), the bounded dispatcher (sortAllFiles), the placer           *)
(* (sortFile) and the watcher (watch), run against a small file system     *)
(* that the environment may change while the program runs.                 *)
(***************************************************************************)
EXTENDS Integers, Sequences, FiniteSets, TLC

\* ------------------------------------------------------------------ bounds
MaxConc == 2
MaxLimit == 2
MaxPasses == 2
MaxChanges == 1

\* ------------------------------------------------------------------- paths
\* A file name is (leading dot?, stem, extension); a path is a sequence of names.
Nm(dot, stem, ext) == [dot |-> dot, stem |-> stem, ext |-> ext]

Last(p) == p[Len(p)]

\* strings.HasPrefix(info.Name(), ".")
HasDotPrefix(name) == name.dot

\* filepath.Ext(path): the extension of the last element
Ext(p) == Last(p).ext

\* filepath.Dir(path)
Dir(p) == SubSeq(p, 1, Len(p) - 1)

\* filepath.Join(a, b)
Join(a, b) == a \o b

\* strings.TrimSuffix(p, filepath.Ext(p)) + ".srt"
SubsPath(p) == [p EXCEPT ![Len(p)] = [@ EXCEPT !.ext = ".srt"]]

InDir == <<Nm(FALSE, "in", "")>>
HidDir == Join(InDir, <<Nm(TRUE, "h", "")>>)
FileA == Join(InDir, <<Nm(FALSE, "a", ".mkv")>>)
FileB == Join(InDir, <<Nm(FALSE, "b", ".mkv")>>)
FileC == Join(HidDir, <<Nm(FALSE, "c", ".mkv")>>)
FileZ == Join(InDir, <<Nm(FALSE, "z", ".mkv")>>)
LinkL == Join(InDir, <<Nm(FALSE, "lnk", "")>>)
TVDir == <<Nm(FALSE, "tv", "")>>
MovieDir == <<Nm(FALSE, "mov", "")>>
RelX == <<Nm(FALSE, "x", ".mkv")>>
RelY == <<Nm(FALSE, "y", ".mkv")>>

\* Every path of the modelled file system, each directory's entries in file-name order
\* (the order ioutil.ReadDir returns them in).
Universe ==
    << InDir, HidDir, FileC, SubsPath(FileC), FileA, SubsPath(FileA), FileB, SubsPath(FileB), LinkL,
       FileZ, SubsPath(FileZ),
       MovieDir, Join(MovieDir, RelY), SubsPath(Join(MovieDir, RelY)),
       TVDir, Join(TVDir, RelX), SubsPath(Join(TVDir, RelX)) >>

AllPaths == {Universe[i] : i \in 1..Len(Universe)}

\* ------------------------------------------------------------- file system
NoInfo == [kind |-> "none", size |-> 0, tag |-> ""]
DirInfo == [kind |-> "dir", size |-> 0, tag |-> ""]
FileInfo(size, tag) == [kind |-> "file", size |-> size, tag |-> tag]

Exists(fsys, p) == fsys[p].kind # "none"

\* The file system before the program starts: tv/x.mkv and its subtitle are there
\* already, mov does not exist yet.
InitFiles ==
    [p \in AllPaths |->
        CASE p \in {InDir, HidDir, TVDir} -> DirInfo
          [] p = FileA -> FileInfo(1, "a")
          [] p = SubsPath(FileA) -> FileInfo(1, "a.srt")
          [] p = FileB -> FileInfo(2, "b")
          [] p = FileC -> FileInfo(3, "c")
          [] p = LinkL -> [kind |-> "link", size |-> 0, tag |-> "lnk"]
          [] p = Join(TVDir, RelX) -> FileInfo(2, "old")
          [] p = SubsPath(Join(TVDir, RelX)) -> FileInfo(1, "old.srt")
          [] OTHER -> NoInfo]

\* ioutil.ReadDir(path): the entries of the directory, sorted by file name
ReadDir(fsys, path) ==
    LET kids == SelectSeq(Universe, LAMBDA p : Len(p) > 1 /\ Dir(p) = path /\ Exists(fsys, p))
    IN [i \in 1..Len(kids) |-> [path |-> kids[i], info |-> fsys[kids[i]]]]

\* ----------------------------------------------------------- configuration
TargetLists ==
    { <<InDir>>, <<FileA, FileB>>, <<FileB, InDir>>, <<TVDir>>, <<FileA, FileA, TVDir>> }

AllConfigs ==
    [ Targets : TargetLists,
      Concurrency : 0..MaxConc,
      FileLimit : 0..MaxLimit,
      Recursive : BOOLEAN,
      DryRun : BOOLEAN,
      SkipHidden : BOOLEAN,
      Overwrite : BOOLEAN,
      OverwriteIfLarger : BOOLEAN,
      Watch : BOOLEAN ]

\* The configurations explored. Watch mode repeats the whole pass, so it is explored
\* with at most one worker and a file limit of at most one; everything else is the
\* full product.
Configs ==
    { c \in AllConfigs : (c.Watch /\ c.Recursive) => (c.Concurrency <= 1 /\ c.FileLimit <= 1) }

ValidExts == {".mkv"}

VARIABLES
    cfg,        \* Config (never changes)
    pc,         \* where FileSystemSort's control thread is
    err,        \* the error FileSystemSort returns ("" is nil)
    errPath,    \* the path whose add raised err (<<>> when none)
    sorts,      \* fs.sorts: path -> candidate
    dirs,       \* fs.dirs
    stats,      \* fs.stats
    idx,        \* scan: index of the next target
    stack,      \* scan: the add calls still to make, in pre-order
    pending,    \* sortAllFiles: candidates the range loop has not reached
    cur,        \* sortAllFiles: the candidate of the current iteration
    queue,      \* sortAllFiles: number of values in the channel
    wg,         \* sortAllFiles: WaitGroup counter
    tasks,      \* the sortFile goroutines: path -> task
    files,      \* the file system
    watching,   \* watch: directories added to the watcher
    toWatch,    \* watch: directories still to add
    events,     \* watch: an event is waiting on watcher.Events
    passes,     \* history: scans begun
    sorted,     \* history: sortAllFiles calls returned
    changes,    \* history: changes made by the environment
    unseen,     \* history: a scanned directory changed after its scan in this pass
    ops,        \* history: file system mutations made by the program
    started,    \* history: path -> number of sortFile calls started in this pass
    statted     \* history: the program has read the file system

vars == << cfg, pc, err, errPath, sorts, dirs, stats, idx, stack, pending, cur, queue, wg,
           tasks, files, watching, toWatch, events, passes, sorted, changes, unseen, ops,
           started, statted >>

scanVars == << sorts, dirs, stats, idx, stack >>
dispVars == << pending, cur, queue, wg, tasks >>
watchVars == << watching, toWatch, events >>
histVars == << passes, sorted, changes, unseen, ops, started, statted >>

EmptyMap == [p \in {} |-> 0]

Init ==
    /\ cfg \in Configs
    /\ pc = "validate"
    /\ err = ""
    /\ errPath = <<>>
    /\ sorts = EmptyMap
    /\ dirs = {}
    /\ stats = [found |-> 0, matched |-> 0, moved |-> 0]
    /\ idx = 1
    /\ stack = <<>>
    /\ pending = {}
    /\ cur = <<>>
    /\ queue = 0
    /\ wg = 0
    /\ tasks = EmptyMap
    /\ files = InitFiles
    /\ watching = {}
    /\ toWatch = {}
    /\ events = FALSE
    /\ passes = 0
    /\ sorted = 0
    /\ changes = 0
    /\ unseen = FALSE
    /\ ops = {}
    /\ started = EmptyMap
    /\ statted = FALSE

\* ------------------------------------------------------ FileSystemSort head
\* ValidateConfig with the check of the two overwrite flags left out.
ValidateConfigNoOverwriteCheck(c) ==
    IF c.Watch /\ ~c.Recursive THEN "RecursiveRequiredToWatch" ELSE ""

\* Lines 67-72: the configuration checks, "" when the configuration is accepted.
ValidateConfig(c) ==
    IF c.Watch /\ ~c.Recursive THEN "RecursiveRequiredToWatch"
    ELSE IF c.Overwrite /\ c.OverwriteIfLarger THEN "OverwriteRedundant"
    ELSE ""

Validate ==
    /\ pc = "validate"
    /\ err' = ValidateConfig(cfg)
    /\ pc' = IF ValidateConfig(cfg) # "" THEN "error" ELSE "loop"
    /\ UNCHANGED << cfg, errPath, scanVars, dispVars, files, watchVars, histVars >>

\* Lines 82-86: the top of the sort loop resets the candidate map and the directory
\* set (and nothing else), then scan starts.
LoopTop ==
    /\ pc = "loop"
    /\ passes < MaxPasses
    /\ sorts' = EmptyMap
    /\ dirs' = {}
    /\ idx' = 1
    /\ stack' = <<>>
    /\ passes' = passes + 1
    /\ unseen' = FALSE
    /\ started' = EmptyMap
    /\ tasks' = EmptyMap
    /\ cur' = <<>>
    /\ pc' = "scan"
    /\ UNCHANGED << cfg, err, errPath, stats, pending, queue, wg, files, watchVars, sorted,
                    changes, ops, statted >>

\* ---------------------------------------------------------------- scanning
\* Lines 111-115: os.Stat of the next target; add is then called on it.
ScanTarget ==
    /\ pc = "scan"
    /\ stack = <<>>
    /\ idx <= Len(cfg.Targets)
    /\ statted' = TRUE
    /\ LET path == cfg.Targets[idx] IN
        IF Exists(files, path)
        THEN /\ stack' = << [path |-> path, info |-> files[path]] >>
             /\ idx' = idx + 1
             /\ UNCHANGED << pc, err >>
        ELSE /\ pc' = "error"
             /\ err' = "StatFailed"
             /\ UNCHANGED << stack, idx >>
    /\ UNCHANGED << cfg, errPath, sorts, dirs, stats, dispVars, files, watchVars, passes,
                    sorted, changes, unseen, ops, started >>

\* SkipsHidden that never skips: the SkipHidden flag is ignored.
SkipsHiddenNever(c, path) == FALSE

\* Line 178: hidden entries are skipped when SkipHidden is set.
SkipsHidden(c, path) == c.SkipHidden /\ HasDotPrefix(Last(path))

\* LimitReached that lets one candidate too many in.
LimitReachedOffByOne(c, s) == Cardinality(DOMAIN s) > c.FileLimit

\* Line 182: nothing is added once the candidate map holds FileLimit entries.
LimitReached(c, s) == Cardinality(DOMAIN s) >= c.FileLimit

\* NeedsRecursive with the check left out: directories are always descended into.
NeedsRecursiveNever(c, info) == FALSE

\* Lines 196-199: a directory needs recursive mode.
NeedsRecursive(c, info) == info.kind = "dir" /\ ~c.Recursive

\* Line 191: fs.sorts[path] = &fileSort{id: len(fs.sorts) + 1, path: path, info: info}
PutSort(s, path, info) ==
    [p \in DOMAIN s \cup {path} |->
        IF p = path
        THEN [id |-> Cardinality(DOMAIN s) + 1, path |-> path, size |-> info.size]
        ELSE s[p]]

\* Lines 176-217: one call of add, on the entry at the head of the pre-order stack.
\* A directory's entries are pushed in front of what remains, which is the order the
\* recursive calls run in; an error unwinds the whole recursion and the scan.
Add ==
    /\ pc = "scan"
    /\ stack # <<>>
    /\ LET e == Head(stack)
           rest == Tail(stack)
       IN
        IF SkipsHidden(cfg, e.path) \/ LimitReached(cfg, sorts)
        THEN /\ stack' = rest
             /\ UNCHANGED << pc, err, errPath, sorts, dirs, stats, statted >>
        ELSE IF e.info.kind = "file"
        THEN /\ stack' = rest
             /\ IF Ext(e.path) \in ValidExts
                THEN /\ sorts' = PutSort(sorts, e.path, e.info)
                     /\ stats' = [stats EXCEPT !.found = @ + 1, !.matched = @ + 1]
                ELSE /\ stats' = [stats EXCEPT !.found = @ + 1]
                     /\ UNCHANGED sorts
             /\ UNCHANGED << pc, err, errPath, dirs, statted >>
        ELSE IF NeedsRecursive(cfg, e.info)
        THEN /\ pc' = "error"
             /\ err' = "RecursiveRequired"
             /\ errPath' = e.path
             /\ UNCHANGED << stack, sorts, dirs, stats, statted >>
        ELSE IF e.info.kind = "dir"
        THEN /\ dirs' = dirs \cup {e.path}
             /\ statted' = TRUE
             /\ \E ok \in BOOLEAN :
                  IF ok /\ Exists(files, e.path)
                  THEN /\ stack' = ReadDir(files, e.path) \o rest
                       /\ UNCHANGED << pc, err, errPath >>
                  ELSE /\ pc' = "error"
                       /\ err' = "ReadDirFailed"
                       /\ errPath' = e.path
                       /\ UNCHANGED stack
             /\ UNCHANGED << sorts, stats >>
        ELSE /\ stack' = rest
             /\ UNCHANGED << pc, err, errPath, sorts, dirs, stats, statted >>
    /\ UNCHANGED << cfg, idx, dispVars, files, watchVars, passes, sorted, changes, unseen,
                    ops, started >>

\* NothingFound without the exception for watch mode.
NothingFoundEvenWatching(c, s, d) == Cardinality(DOMAIN s) = 0

\* Line 121: the condition under which scan reports that nothing was found.
NothingFound(c, s, d) == Cardinality(DOMAIN s) = 0 /\ (~c.Watch \/ d = {})

\* Lines 120-124: after the last target.
ScanEnd ==
    /\ pc = "scan"
    /\ stack = <<>>
    /\ idx > Len(cfg.Targets)
    /\ IF NothingFound(cfg, sorts, dirs)
       THEN pc' = "error" /\ err' = "NoSortableFiles"
       ELSE pc' = "dircheck" /\ UNCHANGED err
    /\ UNCHANGED << cfg, errPath, scanVars, dispVars, files, watchVars, histVars >>

\* Lines 91-93: watch mode needs a directory to watch.
DirCheck ==
    /\ pc = "dircheck"
    /\ IF cfg.Watch /\ dirs = {}
       THEN pc' = "error" /\ err' = "NoDirectoriesToWatch" /\ UNCHANGED pending
       ELSE pc' = "range" /\ pending' = DOMAIN sorts /\ UNCHANGED err
    /\ UNCHANGED << cfg, errPath, scanVars, cur, queue, wg, tasks, files, watchVars,
                    histVars >>

\* ------------------------------------------------------------ sortAllFiles
\* CanSend off by one: the channel takes one value more than its capacity.
CanSendOneMore(q, n) == q <= n

\* Line 134: queue := make(chan bool, fs.Concurrency). A send completes when the
\* buffer has room; with no buffer it needs a goroutine already waiting to receive.
CanSend(q, n) == q < n

\* Lines 143-144: the range loop takes a candidate it has not reached yet (Go leaves
\* the order of a map open) and counts it into the WaitGroup; line 148 follows the
\* last one.
Range ==
    /\ pc = "range"
    /\ IF pending = {}
       THEN pc' = "wait" /\ UNCHANGED << pending, cur, wg >>
       ELSE \E f \in pending :
              /\ pending' = pending \ {f}
              /\ cur' = f
              /\ wg' = wg + 1
              /\ pc' = "send"
    /\ UNCHANGED << cfg, err, errPath, scanVars, queue, tasks, files, watchVars, histVars >>

\* Lines 137-140: the task's error, if any, has been logged and its value received.
Released(t) ==
    [t EXCEPT !.pc = "wgdone", !.err = IF t.err = "" THEN "" ELSE "logged",
              !.newPath = <<>>, !.seen = NoInfo]

\* Line 145: queue <- true
Send ==
    /\ pc = "send"
    /\ IF cfg.Concurrency = 0
       THEN \E p \in DOMAIN tasks :
              /\ tasks[p].pc = "ret"
              /\ tasks' = [tasks EXCEPT ![p] = Released(tasks[p])]
              /\ UNCHANGED queue
       ELSE /\ CanSend(queue, cfg.Concurrency)
            /\ queue' = queue + 1
            /\ UNCHANGED tasks
    /\ pc' = "go"
    /\ UNCHANGED << cfg, err, errPath, scanVars, pending, cur, wg, files, watchVars,
                    histVars >>

\* A task holds sortFile's locals: the candidate's size, newPath, what os.Stat(newPath)
\* found, and the error it returns. Locals are dropped once they are dead.
NewTask(f) ==
    [pc |-> "start", size |-> f.size, newPath |-> <<>>, seen |-> NoInfo, err |-> ""]

\* Line 146: go sortFile(file)
Go ==
    /\ pc = "go"
    /\ tasks' = [p \in DOMAIN tasks \cup {cur} |->
                    IF p = cur THEN NewTask(sorts[cur]) ELSE tasks[p]]
    /\ started' = [p \in DOMAIN started \cup {cur} |->
                    IF p = cur
                    THEN (IF cur \in DOMAIN started THEN started[cur] + 1 ELSE 1)
                    ELSE started[p]]
    /\ pc' = "range"
    /\ UNCHANGED << cfg, err, errPath, scanVars, pending, cur, queue, wg, files, watchVars,
                    passes, sorted, changes, unseen, ops, statted >>

\* WaitReturns without the barrier: wg.Wait() returns at once.
WaitReturnsAtOnce(n) == TRUE

\* Line 148: wg.Wait() returns when the counter is zero.
WaitReturns(n) == n = 0

\* SortAllFilesResult as the comment on lines 132-133 suggests ("keep errors"): a
\* failed task makes the call fail.
SortAllFilesResultKeepsErrors(ts) ==
    IF \E p \in DOMAIN ts : ts[p].err # "" THEN "SortFailed" ELSE ""

\* Line 149: what sortAllFiles returns ("" is nil), whatever the tasks returned.
SortAllFilesResult(ts) == ""

Wait ==
    /\ pc = "wait"
    /\ WaitReturns(wg)
    /\ pc' = "sortret"
    /\ sorted' = sorted + 1
    /\ UNCHANGED << cfg, err, errPath, scanVars, dispVars, files, watchVars, passes,
                    changes, unseen, ops, started, statted >>

\* AfterSort that leaves the loop whatever the watch flag says.
AfterSortAlwaysBreaks(c) == "done"

\* Lines 99-101: where the loop goes after a sort that returned nil.
AfterSort(c) == IF ~c.Watch THEN "done" ELSE "watch"

\* Lines 95-101
SortReturned ==
    /\ pc = "sortret"
    /\ IF SortAllFilesResult(tasks) # ""
       THEN pc' = "error" /\ err' = SortAllFilesResult(tasks)
       ELSE pc' = AfterSort(cfg) /\ UNCHANGED err
    /\ UNCHANGED << cfg, errPath, scanVars, dispVars, files, watchVars, histVars >>

\* ---------------------------------------------------------------- sortFile
\* What Sort and PrettyPath (not in this file) can answer for a path: a resolver
\* error, a formatting error, or a match of some media type.
ResolveOutcomes == {"ResolveFailed", "FormatFailed", "series", "movie", "other"}

\* result.PrettyPath(fs.PathConfig): the relative destination of a match
PrettyPath(mtype) == IF mtype = "series" THEN RelX ELSE RelY

\* Lines 228-237: the base directory by media type, joined with the pretty path.
NewPath(mtype) ==
    Join(IF mtype = "series" THEN TVDir ELSE MovieDir, PrettyPath(mtype))

\* ReturnsBeforeMove without the already-sorted check.
ReturnsBeforeMoveDryRunOnly(c, src, dst) == c.DryRun

\* ReturnsBeforeMove without the dry-run check.
ReturnsBeforeMoveNoDryRun(c, src, dst) == src = dst

\* Lines 241-246: a dry run and an already sorted file return nil before the file
\* system is touched.
ReturnsBeforeMove(c, src, dst) == c.DryRun \/ src = dst

\* Lines 220-246: resolve, format, choose the base directory, log, and return early
\* on a dry run or when the file is already in place. result.Path is the candidate's
\* own path.
TaskResolve(p) ==
    /\ tasks[p].pc = "start"
    /\ \E o \in ResolveOutcomes :
         tasks' = [tasks EXCEPT ![p] =
            IF o \in {"ResolveFailed", "FormatFailed"}
            THEN [@ EXCEPT !.pc = "ret", !.err = o]
            ELSE IF o \notin {"series", "movie"}
            THEN [@ EXCEPT !.pc = "ret", !.err = "InvalidType"]
            ELSE IF ReturnsBeforeMove(cfg, p, NewPath(o))
            THEN [@ EXCEPT !.pc = "ret", !.newPath = NewPath(o)]
            ELSE [@ EXCEPT !.pc = "stat", !.newPath = NewPath(o)]]
    /\ UNCHANGED << cfg, pc, err, errPath, scanVars, pending, cur, queue, wg, files,
                    watchVars, histVars >>

\* A return of sortFile from the move itself (lines 260-275).
Returned(t, e) == [t EXCEPT !.pc = "ret", !.err = e, !.newPath = <<>>, !.seen = NoInfo]

\* Lines 250-254: may an existing destination be replaced? newSize is the size of
\* what os.Stat(newPath) found, fileSize the size of the candidate being moved.
MayOverwrite(c, newSize, fileSize) ==
    c.Overwrite \/ (c.OverwriteIfLarger /\ newSize > fileSize)

\* Lines 248-258: the collision check.
TaskStat(p) ==
    /\ tasks[p].pc = "stat"
    /\ LET t == tasks[p]
           newInfo == files[t.newPath]
       IN tasks' = [tasks EXCEPT ![p] =
            IF Exists(files, t.newPath) /\ ~MayOverwrite(cfg, newInfo.size, t.size)
            THEN [@ EXCEPT !.pc = "ret", !.err = "AlreadyExists", !.seen = newInfo,
                           !.newPath = <<>>]
            ELSE [@ EXCEPT !.pc = "mkdir", !.seen = newInfo]]
    /\ statted' = TRUE
    /\ UNCHANGED << cfg, pc, err, errPath, scanVars, pending, cur, queue, wg, files,
                    watchVars, passes, sorted, changes, unseen, ops, started >>

\* Lines 259-263: os.MkdirAll(filepath.Dir(newPath), 0755)
TaskMkdir(p) ==
    /\ tasks[p].pc = "mkdir"
    /\ LET d == Dir(tasks[p].newPath) IN
       \E ok \in BOOLEAN :
         IF ok /\ files[d].kind \in {"none", "dir"}
         THEN /\ tasks' = [tasks EXCEPT ![p].pc = "rename", ![p].seen = NoInfo]
              /\ files' = [files EXCEPT ![d] = DirInfo]
              /\ ops' = IF Exists(files, d) THEN ops
                        ELSE ops \cup {[op |-> "mkdir", dst |-> d, replaced |-> ""]}
         ELSE /\ tasks' = [tasks EXCEPT ![p] = Returned(@, "MkdirFailed")]
              /\ UNCHANGED << files, ops >>
    /\ UNCHANGED << cfg, pc, err, errPath, scanVars, pending, cur, queue, wg, watchVars,
                    passes, sorted, changes, unseen, started, statted >>

\* os.Rename(src, dst) can succeed only when src is there, dst's directory is there
\* and dst is not a directory; it then replaces whatever file dst held.
RenamePossible(fsys, src, dst) ==
    /\ Exists(fsys, src)
    /\ fsys[Dir(dst)].kind = "dir"
    /\ fsys[dst].kind # "dir"

Renamed(fsys, src, dst) == [fsys EXCEPT ![dst] = fsys[src], ![src] = NoInfo]

\* Lines 264-268: os.Rename(result.Path, newPath)
TaskRename(p) ==
    /\ tasks[p].pc = "rename"
    /\ LET dst == tasks[p].newPath IN
       \E ok \in BOOLEAN :
         IF ok /\ RenamePossible(files, p, dst)
         THEN /\ tasks' = [tasks EXCEPT ![p].pc = "subs"]
              /\ files' = Renamed(files, p, dst)
              /\ ops' = ops \cup {[op |-> "rename", dst |-> dst,
                                   replaced |-> files[dst].tag]}
         ELSE /\ tasks' = [tasks EXCEPT ![p] = Returned(@, "RenameFailed")]
              /\ UNCHANGED << files, ops >>
    /\ UNCHANGED << cfg, pc, err, errPath, scanVars, pending, cur, queue, wg, watchVars,
                    passes, sorted, changes, unseen, started, statted >>

\* SubsResult that hands a failed subtitle move back to the caller.
SubsResultReported(moved) == IF moved THEN "" ELSE "SubsFailed"

\* Lines 273-275: the result of the subtitle's os.Rename is dropped and sortFile returns
\* nil.
SubsResult(moved) == ""

\* Lines 269-274: if a subtitle file sits next to the source, os.Rename(pathSubs,
\* newPathSubs), its error dropped.
TaskSubs(p) ==
    /\ tasks[p].pc = "subs"
    /\ LET src == SubsPath(p)
           dst == SubsPath(tasks[p].newPath)
       IN \E ok \in BOOLEAN :
            IF ok /\ RenamePossible(files, src, dst)
            THEN /\ files' = Renamed(files, src, dst)
                 /\ ops' = ops \cup {[op |-> "subs", dst |-> dst,
                                      replaced |-> files[dst].tag]}
                 /\ tasks' = [tasks EXCEPT ![p] = Returned(@, SubsResult(TRUE))]
            ELSE /\ tasks' = [tasks EXCEPT ![p] = Returned(@, SubsResult(FALSE))]
                 /\ UNCHANGED << files, ops >>
    /\ statted' = TRUE
    /\ UNCHANGED << cfg, pc, err, errPath, scanVars, pending, cur, queue, wg, watchVars,
                    passes, sorted, changes, unseen, started >>

\* Lines 137-140: sortFile has returned (an error is only logged); <-queue
TaskRelease(p) ==
    /\ tasks[p].pc = "ret"
    /\ queue > 0
    /\ queue' = queue - 1
    /\ tasks' = [tasks EXCEPT ![p] = Released(@)]
    /\ UNCHANGED << cfg, pc, err, errPath, scanVars, pending, cur, wg, files, watchVars,
                    histVars >>

\* Line 141: wg.Done()
TaskDone(p) ==
    /\ tasks[p].pc = "wgdone"
    /\ wg' = wg - 1
    /\ tasks' = [tasks EXCEPT ![p].pc = "fin"]
    /\ UNCHANGED << cfg, pc, err, errPath, scanVars, pending, cur, queue, files,
                    watchVars, histVars >>

\* ------------------------------------------------------------------- watch
\* Lines 153-159: the directory set must not be empty; the watcher is created.
WatchNew ==
    /\ pc = "watch"
    /\ IF dirs = {}
       THEN pc' = "error" /\ err' = "NoDirectoriesToWatch"
            /\ UNCHANGED << watching, toWatch, events >>
       ELSE \E ok \in BOOLEAN :
              IF ok
              THEN /\ pc' = "watchadd"
                   /\ toWatch' = dirs
                   /\ watching' = {}
                   /\ events' = FALSE
                   /\ UNCHANGED err
              ELSE /\ pc' = "error" /\ err' = "WatcherFailed"
                   /\ UNCHANGED << watching, toWatch, events >>
    /\ UNCHANGED << cfg, errPath, scanVars, dispVars, files, histVars >>

\* Lines 160-165: watcher.Add for each directory of the set, in any order.
WatchAdd ==
    /\ pc = "watchadd"
    /\ IF toWatch = {}
       THEN pc' = "select" /\ UNCHANGED << err, watching, toWatch >>
       ELSE \E d \in toWatch, ok \in BOOLEAN :
              IF ok
              THEN /\ watching' = watching \cup {d}
                   /\ toWatch' = toWatch \ {d}
                   /\ UNCHANGED << pc, err >>
              ELSE /\ pc' = "error" /\ err' = "WatchAddFailed"
                   /\ UNCHANGED << watching, toWatch >>
    /\ UNCHANGED << cfg, errPath, scanVars, dispVars, files, events, histVars >>

\* Lines 166-173: the select returns on the first event; the watcher is closed and,
\* after the delay, the loop starts over.
WatchEvent ==
    /\ pc = "select"
    /\ events
    /\ events' = FALSE
    /\ watching' = {}
    /\ pc' = "loop"
    /\ UNCHANGED << cfg, err, errPath, scanVars, dispVars, files, toWatch, histVars >>

\* Line 168: the watcher reports an error of its own, which ends the select as well.
WatchError ==
    /\ pc = "select"
    /\ ~events
    /\ watching' = {}
    /\ pc' = "loop"
    /\ UNCHANGED << cfg, err, errPath, scanVars, dispVars, files, toWatch, events,
                    histVars >>

\* ------------------------------------------------------------- environment
\* Somebody else changes a directory the current pass has scanned, while the program
\* runs in watch mode: in/z.mkv is written (and created if need be), or something in
\* tv/ is touched, which leaves the tree as it is. A watcher that has the directory
\* added gets an event.
FsChange ==
    /\ cfg.Watch
    /\ pc \notin {"done", "error"}
    /\ changes < MaxChanges
    /\ \E d \in dirs \cap {InDir, TVDir} :
        /\ files' = IF d = InDir THEN [files EXCEPT ![FileZ] = FileInfo(1, "z")] ELSE files
        /\ events' = (events \/ d \in watching)
    /\ changes' = changes + 1
    /\ unseen' = TRUE
    /\ UNCHANGED << cfg, pc, err, errPath, scanVars, dispVars, watching, toWatch, passes,
                    sorted, ops, started, statted >>

Task ==
    \/ \E p \in DOMAIN tasks : TaskResolve(p)
    \/ \E p \in DOMAIN tasks : TaskStat(p)
    \/ \E p \in DOMAIN tasks : TaskMkdir(p)
    \/ \E p \in DOMAIN tasks : TaskRename(p)
    \/ \E p \in DOMAIN tasks : TaskSubs(p)
    \/ \E p \in DOMAIN tasks : TaskRelease(p)
    \/ \E p \in DOMAIN tasks : TaskDone(p)

Program ==
    \/ Validate \/ LoopTop \/ ScanTarget \/ Add \/ ScanEnd \/ DirCheck
    \/ Range \/ Send \/ Go \/ Wait \/ SortReturned
    \/ Task
    \/ WatchNew \/ WatchAdd \/ WatchEvent

Next == Program \/ WatchError \/ FsChange

Spec == Init /\ [][Next]_vars

\* The Go scheduler runs every goroutine that can take a step; the environment owes
\* nothing (no change has to come, no watcher error has to be reported).
Control ==
    \/ Validate \/ LoopTop \/ ScanTarget \/ Add \/ ScanEnd \/ DirCheck
    \/ Range \/ Send \/ Go \/ Wait \/ SortReturned
    \/ WatchNew \/ WatchAdd \/ WatchEvent

FairSpec == Spec /\ WF_vars(Control) /\ WF_vars(Task)

\* ------------------------------------------------------------------ phases
\* The control loop's phase: lines 60-80 validate, 82-93 scan, 94-97 sort, 98-104
\* watch.
Phase ==
    CASE pc = "validate" -> "Validating"
      [] pc \in {"loop", "scan", "dircheck"} -> "Scanning"
      [] pc \in {"range", "send", "go", "wait", "sortret"} -> "Sorting"
      [] pc \in {"watch", "watchadd", "select"} -> "Watching"
      [] pc = "done" -> "Done"
      [] OTHER -> "Error"

\* sortAllFiles has returned in the current pass.
SortReturnedThisPass == passes > 0 /\ sorted = passes

\* Tasks that hold a slot of the admission channel: the candidate whose value was
\* sent and whose goroutine is about to start, and every goroutine that has not
\* received from the channel yet.
Admitted ==
    Cardinality({p \in DOMAIN tasks : tasks[p].pc \notin {"wgdone", "fin"}})
        + (IF pc = "go" THEN 1 ELSE 0)

NoOverwriteFlags == ~cfg.Overwrite /\ ~cfg.OverwriteIfLarger

TargetSet == {cfg.Targets[i] : i \in 1..Len(cfg.Targets)}

\* ------------------------------------------------------------------ claims

\* C1: with neither overwrite flag set, no rename of a candidate replaces a file that
\* is already at the destination; in particular two candidates with the same
\* destination never replace one another, in any interleaving.
C1_NoSilentReplace ==
    NoOverwriteFlags => \A o \in ops : o.op = "rename" => o.replaced = ""

\* C2: a task that found a file at its destination goes on to overwrite it if and only
\* if overwrite is set, or overwrite-if-larger is set and the file being moved is
\* strictly larger than the file found; otherwise it fails with "already exists".
C2_OverwriteIffMovedIsLarger ==
    \A p \in DOMAIN tasks :
        LET t == tasks[p] IN
        t.seen.kind = "file" =>
            ((t.err # "AlreadyExists")
                <=> (cfg.Overwrite \/ (cfg.OverwriteIfLarger /\ t.size > t.seen.size)))

\* C3: for a ceiling N >= 1 the number of admitted tasks that have not released their
\* slot never exceeds N.
C3_AtMostNAdmitted ==
    cfg.Concurrency >= 1 => Admitted <= cfg.Concurrency

C3_Witness ==
    /\ cfg.Concurrency >= 1
    /\ pc = "send"
    /\ Admitted = cfg.Concurrency
    /\ \E p \in DOMAIN tasks : tasks[p].pc = "ret" /\ tasks[p].err # ""

\* C4: for N >= 1 sortFile is started at most once per candidate and for candidates
\* only, and once sortAllFiles has returned it was started exactly once for every
\* candidate of the scan and every one of those tasks has finished.
C4_EachOnceAndBarrier ==
    cfg.Concurrency >= 1 =>
        /\ DOMAIN started \subseteq DOMAIN sorts
        /\ \A p \in DOMAIN started : started[p] = 1
        /\ SortReturnedThisPass =>
              /\ DOMAIN started = DOMAIN sorts
              /\ \A p \in DOMAIN sorts : p \in DOMAIN tasks /\ tasks[p].pc = "fin"

C4_Witness ==
    /\ cfg.Concurrency >= 1
    /\ SortReturnedThisPass
    /\ Cardinality(DOMAIN sorts) >= 2
    /\ \E p, q \in DOMAIN tasks : tasks[p].err = "" /\ tasks[q].err # ""

\* C5: whatever the candidates' outcomes, sortAllFiles returns nil once all of them
\* have been processed, and the loop goes on to Done or to Watching: the only errors
\* FileSystemSort returns after a sort are the watcher's.
C5_FailuresContained ==
    SortReturnedThisPass =>
        /\ \A p \in DOMAIN sorts : p \in DOMAIN tasks /\ tasks[p].pc = "fin"
        /\ ~cfg.Watch => pc \in {"sortret", "done"}
        /\ pc = "sortret" => SortAllFilesResult(tasks) = ""
        /\ pc = "error" => err \in {"NoDirectoriesToWatch", "WatcherFailed", "WatchAddFailed"}

C5_Witness ==
    /\ pc = "done"
    /\ Cardinality(DOMAIN sorts) >= 2
    /\ \A p \in DOMAIN sorts : p \in DOMAIN tasks /\ tasks[p].err # ""

\* C6: in a dry run the program makes no directory, renames no file and moves no
\* subtitle: every path it could touch is as it was before.
C6_DryRunLeavesFilesAlone ==
    cfg.DryRun =>
        /\ ops = {}
        /\ \A p \in AllPaths \ {FileZ} : files[p] = InitFiles[p]

C6_Witness ==
    /\ cfg.DryRun
    /\ cfg.Overwrite
    /\ pc = "done"
    /\ Cardinality(DOMAIN tasks) >= 2
    /\ \A p \in DOMAIN tasks : tasks[p].pc = "fin" /\ tasks[p].err = ""

\* The phase changes the sort loop can make.
PhaseSteps(c) ==
    { <<"Validating", "Scanning">>, <<"Validating", "Error">>,
      <<"Scanning", "Sorting">>, <<"Scanning", "Error">>,
      <<"Watching", "Scanning">>, <<"Watching", "Error">>,
      IF c.Watch THEN <<"Sorting", "Watching">> ELSE <<"Sorting", "Done">> }

\* What the run counters say in each phase.
C7_PhaseInv ==
    /\ cfg.Watch => pc # "done"
    /\ ~cfg.Watch => passes <= 1
    /\ pc = "done" => passes = 1 /\ sorted = 1
    /\ Phase = "Sorting" => passes >= 1 /\ sorted \in {passes - 1, passes}
    /\ Phase = "Watching" => SortReturnedThisPass
    /\ sorted <= passes

\* C7: the phases follow Validating -> Scanning -> Sorting -> (Watching -> Scanning |
\* Done), with Error reachable from everything but Sorting. Without watch there is one
\* scan and one sort before Done; with watch Done is never reached; sorting only
\* follows the scan of the same cycle.
C7_ControlLoop ==
    /\ []C7_PhaseInv
    /\ [][Phase' # Phase => <<Phase, Phase'>> \in PhaseSteps(cfg)]_vars

C7_Witness ==
    /\ cfg.Watch
    /\ passes = 2
    /\ pc = "select"

\* C8: in watch mode (with a ceiling N >= 1) a change in a scanned directory made after
\* its scan is followed by another pass, unless the run ends with an error first (or
\* the bound on passes is reached).
C8_NoChangeMissed ==
    (cfg.Concurrency >= 1 /\ unseen)
        ~> (~unseen \/ pc = "error" \/ (pc = "loop" /\ passes = MaxPasses))

\* The configurations lines 67-72 reject.
InvalidConfig(c) == (c.Overwrite /\ c.OverwriteIfLarger) \/ (c.Watch /\ ~c.Recursive)

\* C9: a configuration with both overwrite flags, or with watch but without
\* recursive, is rejected before anything is scanned: nothing is read, no candidate
\* exists and nothing is changed.
C9_InvalidConfigRejectedFirst ==
    InvalidConfig(cfg) =>
        /\ pc \in {"validate", "error"}
        /\ pc = "error" => err \in {"RecursiveRequiredToWatch", "OverwriteRedundant"}
        /\ ~statted
        /\ passes = 0
        /\ DOMAIN sorts = {} /\ DOMAIN tasks = {}
        /\ ops = {}
        /\ files = InitFiles

C9_Witness ==
    /\ cfg.Overwrite /\ cfg.OverwriteIfLarger
    /\ ~cfg.Watch
    /\ pc = "error"

\* C10 as stated: a directory that is itself an explicit target is not an error for
\* the scan, so the recursion-required error never names a target.
C10_TargetDirIsNoError ==
    err = "RecursiveRequired" => errPath \notin TargetSet

\* C10 amended: with recursion disabled no directory is ever descended into; a
\* directory target that is not skipped (hidden, or the file limit is reached) ends
\* the scan with the recursion-required error, which names that target; with
\* recursion enabled that error never occurs.
C10_AnyDirNeedsRecursive ==
    /\ ~cfg.Recursive => dirs = {}
    /\ err = "RecursiveRequired" =>
          /\ ~cfg.Recursive
          /\ pc = "error"
          /\ errPath \in TargetSet
          /\ files[errPath].kind = "dir"
    /\ (~cfg.Recursive /\ pc = "scan" /\ stack = <<>>) =>
          \A i \in 1..(idx - 1) :
              files[cfg.Targets[i]].kind = "dir" =>
                  SkipsHidden(cfg, cfg.Targets[i]) \/ LimitReached(cfg, sorts)

C10_Witness ==
    /\ pc = "error"
    /\ err = "RecursiveRequired"
    /\ errPath = InDir
    /\ cfg.Targets = <<FileB, InDir>>
    /\ DOMAIN sorts = {FileB}

\* ------------------------------------------------------- what a scan finds
\* p is t or lies below it.
UnderTarget(t, p) == Len(p) >= Len(t) /\ SubSeq(p, 1, Len(t)) = t

\* p is there and every path from t down to p's parent is a directory.
Reachable(fsys, t, p) ==
    /\ Exists(fsys, p)
    /\ \A i \in Len(t)..(Len(p) - 1) : fsys[SubSeq(p, 1, i)].kind = "dir"

\* No name from the target's own down to p's is hidden, when hidden entries are skipped.
Visible(c, t, p) == c.SkipHidden => \A i \in Len(t)..Len(p) : ~HasDotPrefix(p[i])

\* The regular files with an allowed extension that a traversal from t meets, in
\* pre-order.
MediaUnder(fsys, c, t) ==
    SelectSeq(Universe, LAMBDA p :
        /\ UnderTarget(t, p) /\ Reachable(fsys, t, p) /\ Visible(c, t, p)
        /\ fsys[p].kind = "file"
        /\ Ext(p) \in ValidExts)

RECURSIVE Discovery(_, _, _)
\* The same for the targets from the i-th on, in the order the targets are given.
Discovery(fsys, c, i) ==
    IF i > Len(c.Targets) THEN <<>>
    ELSE MediaUnder(fsys, c, c.Targets[i]) \o Discovery(fsys, c, i + 1)

RECURSIVE FirstDistinct(_, _, _)
\* The first n distinct elements of seq, added to acc.
FirstDistinct(seq, acc, n) ==
    IF seq = <<>> \/ Cardinality(acc) >= n THEN acc
    ELSE FirstDistinct(Tail(seq), acc \cup {Head(seq)}, n)

ExpectedSorts(fsys, c) == FirstDistinct(Discovery(fsys, c, 1), {}, c.FileLimit)

\* The scan of the current pass has returned and nothing changed behind its back.
ScanReturned ==
    /\ ~unseen
    /\ pc = "dircheck" \/ (pc = "error" /\ err = "NoSortableFiles")

\* C11: with recursive=true the candidates of a scan are exactly the regular files
\* with an allowed extension reachable from the targets, without the hidden entries and
\* what lies below them when skip-hidden is set, cut to the first file-limit of them in
\* pre-order; nothing that is not a regular file is a candidate.
C11_CandidatesAreTheMediaFiles ==
    (cfg.Recursive /\ ScanReturned) =>
        /\ DOMAIN sorts = ExpectedSorts(files, cfg)
        /\ \A p \in DOMAIN sorts : files[p].kind = "file"

C11_Witness ==
    /\ cfg.Recursive /\ cfg.SkipHidden
    /\ cfg.Targets = <<InDir>>
    /\ cfg.FileLimit = MaxLimit
    /\ pc = "dircheck"
    /\ ~unseen
    /\ FileA \in DOMAIN sorts
    /\ FileC \notin DOMAIN sorts

\* C12: the number of candidates never exceeds the file limit, and the limit is a soft
\* cap: add returns nil once it is reached, so an error out of add (a directory
\* without recursive mode, a directory that cannot be listed) only ever comes while
\* there is still room for a candidate.
C12_LimitIsASoftCap ==
    /\ Cardinality(DOMAIN sorts) <= cfg.FileLimit
    /\ err \in {"RecursiveRequired", "ReadDirFailed"} =>
           Cardinality(DOMAIN sorts) < cfg.FileLimit

\* The limit is reached in the middle of a directory: the next entry is a media file
\* that is not taken.
C12_Witness ==
    /\ pc = "scan"
    /\ cfg.FileLimit = 1
    /\ DOMAIN sorts = {FileA}
    /\ stack # <<>>
    /\ Head(stack).path = FileB

\* C13: the scan fails with "No sortable files found" exactly when no candidate was
\* produced and it is not so that watch mode is on with a directory recorded: the
\* error implies that condition, and a pass that went past the scan without a
\* candidate is a watch-mode pass with a directory, which goes on to sort and watch.
C13_NothingFoundUnlessWatchingDirs ==
    /\ err = "NoSortableFiles" =>
           DOMAIN sorts = {} /\ (~cfg.Watch \/ dirs = {})
    /\ ( /\ pc \in {"dircheck", "range", "send", "go", "wait", "sortret", "watch",
                    "watchadd", "select"}
         /\ DOMAIN sorts = {} ) =>
           cfg.Watch /\ dirs # {}

\* A watch-mode pass without a candidate that has sorted (nothing) and is watching.
C13_Witness ==
    /\ cfg.Watch
    /\ pc = "select"
    /\ SortReturnedThisPass
    /\ DOMAIN sorts = {}
    /\ dirs # {}
    /\ dirs \subseteq watching

\* C14: a candidate whose destination is its own path returns success straight from
\* the check on lines 241-246, whatever the overwrite and dry-run flags are: it never
\* gets to the collision check, the mkdir, the rename or the subtitle move, its error
\* is nil and the file is still where it was.
C14_AlreadySortedIsLeftAlone ==
    \A p \in DOMAIN tasks :
        tasks[p].newPath = p =>
            /\ tasks[p].pc = "ret"
            /\ tasks[p].err = ""
            /\ files[p].kind = "file"

\* tv/x.mkv resolved as the series episode it already is the file of, for real and
\* with nothing allowed to be replaced.
C14_Witness ==
    /\ ~cfg.DryRun /\ NoOverwriteFlags
    /\ TVDir \o RelX \in DOMAIN tasks
    /\ tasks[TVDir \o RelX].newPath = TVDir \o RelX
    /\ tasks[TVDir \o RelX].pc = "ret"

\* C15: the subtitle step never changes a candidate's result and comes only after the
\* main rename: a task that has returned after its file left the source path returned
\* nil, whether the subtitle was absent, moved or could not be moved; a task is at the
\* subtitle step only with its own rename done, and every subtitle move has the rename
\* of its media file before it.
C15_SubtitleIsBestEffort ==
    /\ \A p \in DOMAIN tasks :
        /\ (tasks[p].pc = "ret" /\ ~Exists(files, p)) => tasks[p].err = ""
        /\ tasks[p].pc = "subs" =>
              \E r \in ops : r.op = "rename" /\ r.dst = tasks[p].newPath
    /\ \A o \in ops :
        o.op = "subs" => \E r \in ops : r.op = "rename" /\ SubsPath(r.dst) = o.dst

\* in/a.mkv was moved and has returned nil, and its subtitle could not be moved.
C15_Witness ==
    /\ FileA \in DOMAIN tasks
    /\ tasks[FileA].pc = "ret"
    /\ tasks[FileA].err = ""
    /\ ~Exists(files, FileA)
    /\ Exists(files, SubsPath(FileA))
    /\ \E r \in ops : r.op = "rename"

\* C16: the run statistics are reset at the start of every pass: when a scan begins,
\* in the first pass and in every later pass of watch mode, the found, matched and
\* moved counters are zero.
C16_StatsZeroAtScanStart ==
    (pc = "scan" /\ idx = 1 /\ stack = <<>>) =>
        stats.found = 0 /\ stats.matched = 0 /\ stats.moved = 0

\* C17: after a scan the ids of the candidates are pairwise distinct and are exactly
\* 1..n, n being the number of candidates, for every list of targets, one that names a
\* path twice included.
C17_IdsAreOneToN ==
    pc = "dircheck" =>
        /\ \A p, q \in DOMAIN sorts : p # q => sorts[p].id # sorts[q].id
        /\ {sorts[p].id : p \in DOMAIN sorts} = 1..Cardinality(DOMAIN sorts)

\* C18: with recursive=true every directory the scan comes upon, as a target or as an
\* entry of a directory it listed, and does not skip as hidden is in the directory set
\* when the scan returns, the file limit reached or not; in watch mode each of them is
\* then added to the watcher.
C18_EveryDirectoryRecorded ==
    \A p \in AllPaths :
        ( /\ cfg.Recursive /\ ~unseen
          /\ files[p].kind = "dir"
          /\ p \in TargetSet \/ Dir(p) \in dirs
          /\ ~SkipsHidden(cfg, p) ) =>
            /\ pc = "dircheck" => p \in dirs
            /\ pc = "select" => p \in watching

\* C19: with neither overwrite flag set no placement replaces a file that is already at
\* its destination, the companion subtitle's placement at the destination's .srt path
\* included. Stated for one worker, where the placements of a pass come one after the
\* other.
C19_NothingReplacedWithoutFlags ==
    (NoOverwriteFlags /\ cfg.Concurrency = 1) =>
        \A o \in ops : o.op \in {"rename", "subs"} => o.replaced = ""

\* C20: for every Concurrency the validation accepts, 0 included, the dispatching
\* thread is never stuck at the send on the admission channel with no task in flight to
\* receive from it: whenever it is at the send, either the send can go through or some
\* task has yet to do its receive.
C20_SendNeverStuck ==
    pc = "send" =>
        \/ ENABLED Send
        \/ \E p \in DOMAIN tasks : tasks[p].pc \notin {"wgdone", "fin"}
====
